---- MODULE Spec2Model ----
(***************************************************************************)
(* Pending-question correlation of HumanInSlack (src/src/slack-client.ts): *)
(* ask() posts a question, records it in pendingResponses and              *)
(* responseResolvers and waits on a promise; the 'message' listener acks   *)
(* every Socket Mode event and hands it to handleSocketModeRequest, which  *)
(* matches it against the pending questions; a 60 s timer rejects the      *)
(* promise of a question that is still unresolved.                         *)
(*                                                                         *)
(* The JavaScript event loop is modelled as it schedules the code: a       *)
(* macrotask (timer callback, HTTP response, socket event, completion of   *)
(* ack) runs only when the microtask queue is empty, and the continuation  *)
(* of a settled promise is a job appended to the microtask queue.          *)
(***************************************************************************)
EXTENDS Integers, Sequences, FiniteSets, TLC

\* ---------------------------------------------------------------- bounds
MaxAsks == 2
MaxEvents == 2
MaxMatchEvents == 1
MaxTicks == 1
MaxLogEvents == 52
MaxOdd == 1
MaxThread == 2
MaxToolEvents == 1
MaxCalls == 3
MaxPollFails == 1
MaxLongThread == 10

\* ------------------------------------------------------ program constants
Timeout == 60000
LogLimit == 50
TextLogLen == 50
PollLimit == 10
PollTimeout == 60000
PollInterval == 2000

\* ------------------------------------------------------------ value sets
Asks == 1..MaxAsks
\* Tool calls and callers of start(); the ask of call c is ask c, and a call
\* beyond MaxAsks is followed up to its call of human.ask.
Calls == 1..MaxCalls
\* An optional value (undefined or null in the source) is None or Some(x).
None == <<>>
Some(x) == <<x>>
TextYes == <<"y", "e", "s">>
Channels == {"C1", "C2"}
Users == {"U1", "U2"}
channelId == "C1"
userId == "U1"

VARIABLES
  now,               \* the latest value of Date.now(), in ms
  handler,           \* HumanInSlack.handler: "none" or "set"
  isReady,           \* SlackHandler.isReady
  pc,                \* position of every ask call
  qid,               \* questionId of every ask call
  post,              \* what chat.postMessage did for every ask call
  tsCounter,         \* number of message timestamps the backend has issued
  pendingResponses,  \* Map<string, PendingResponse>, in insertion order
  responseResolvers, \* Map<string, resolve>: id -> ask whose promise it settles
  promise,           \* state of responsePromise of every ask call
  value,             \* value responsePromise was fulfilled with
  calls,             \* number of calls of resolve/reject of responsePromise
  timers,            \* armed 60 s timers, in firing order
  deadline,          \* expiry time of the timer of every ask call
  fired,             \* ask calls whose timer callback has run
  microtasks,        \* queue of promise continuations
  acking,            \* events whose ack() is in flight
  emitted,           \* number of events the socket client has emitted
  eventCount,        \* HumanInSlack.eventCount
  messageLog,        \* HumanInSlack.messageLog
  outcome,           \* how every ask call ended
  answer,            \* string returned by every ask call
  lastHandled,       \* the event handled last and what it met (history)
  logged,            \* every entry ever pushed to messageLog (history)
  odd,               \* events emitted that are not plain user messages
  rejected,          \* seq of the events whose ack() rejected (history)
  thread,            \* replies posted in the thread of the compared question
  sres,              \* how the streaming ask of the compared question ended
  pres,              \* how the polling ask of the compared question ended
  polled,            \* number of replies in the thread at the latest poll
                     \* that was answered
  ppc,               \* position of the polling ask
  elapsed,           \* Date.now() - startTime of the polling ask, in ms
  pfails,            \* number of polls that threw (history)
  client,            \* the SlackHandler class in use: "old" or "new"
  sock,              \* state of the SocketModeClient
  startPromise,      \* SlackHandler.startPromise, and whose call created it
  sp,                \* position of every call of SlackHandler.start()
  got,               \* the attempt whose promise every start() call got
  doStarts,          \* number of runs of the start sequence
  sockStarts,        \* number of calls of socketClient.start()
  tool,              \* position of every ask_on_slack tool call
  result,            \* what every tool call returned
  handlers,          \* number of SlackHandler objects created
  listeners,         \* number of 'message' listeners registered
  steady,            \* calls made with the handler started and the socket
                     \* connected, the connection not lost since (history)
  retries            \* calls made after a failed initialization, the socket
                     \* never connected before, no connection lost since
                     \* (history)

vars == <<now, handler, isReady, pc, qid, post, tsCounter, pendingResponses,
          responseResolvers, promise, value, calls, timers, deadline, fired,
          microtasks, acking, emitted, eventCount, messageLog, outcome,
          answer, lastHandled, logged, odd, rejected, thread, sres, pres, polled,
          ppc, elapsed, pfails, client, sock, startPromise, sp, got, doStarts, sockStarts, tool,
          result, handlers, listeners, steady, retries>>

askVars == <<pc, qid, post, outcome, answer>>
storeVars == <<pendingResponses, responseResolvers>>
promiseVars == <<promise, value, calls>>
timerVars == <<timers, deadline, fired>>
feedVars == <<acking, emitted, odd, rejected>>
debugVars == <<eventCount, messageLog, lastHandled, logged>>
connVars == <<handler, isReady>>
pollVars == <<thread, sres, pres, polled, ppc, elapsed, pfails>>
\* What the steps of HumanInSlack leave alone.
startVars == <<client, sock, startPromise, sp, got, doStarts, sockStarts>>
toolVars == <<tool, result, handlers, listeners, steady, retries>>
extVars == <<pollVars, startVars, toolVars>>

\* ------------------------------------------------------------ Map helpers
\* Map.prototype.set on the insertion-ordered pendingResponses: an existing
\* key keeps its position and gets the new value.
MapHas(m, id) == \E i \in 1..Len(m) : m[i].id = id

MapSet(m, rec) ==
  IF MapHas(m, rec.id)
    THEN [i \in 1..Len(m) |-> IF m[i].id = rec.id THEN rec ELSE m[i]]
    ELSE Append(m, rec)

MapDelete(m, id) == SelectSeq(m, LAMBDA r : r.id # id)

ResolverSet(f, id, a) ==
  [k \in (DOMAIN f) \cup {id} |-> IF k = id THEN a ELSE f[k]]

ResolverDelete(f, id) == [k \in (DOMAIN f) \ {id} |-> f[k]]

EmptyMap == [k \in {} |-> 0]

\* ------------------------------------------------------------- ask: start
\* `q_${Date.now()}`
QuestionId(t) == <<"q", t>>

\* Date.now(): the value read last, or a later one.
ClockReads == {now} \cup (IF now % Timeout < MaxTicks THEN {now + 1} ELSE {})

NotReady_HandlerOnly == handler = "none"

\* !this.handler || !this.handler.isReady
NotReady == handler = "none" \/ ~isReady

\* ask up to chat.postMessage, notReady being what its first check finds.
AskBegin(a, notReady) ==
  /\ microtasks = <<>>
  /\ pc[a] = "idle"
  /\ IF notReady
       THEN /\ pc' = [pc EXCEPT ![a] = "done"]
            /\ outcome' = [outcome EXCEPT ![a] = "NotReady"]
            /\ UNCHANGED <<now, qid>>
       ELSE /\ pc' = [pc EXCEPT ![a] = "posting"]
            /\ \E t \in ClockReads :
                 /\ now' = t
                 /\ qid' = [qid EXCEPT ![a] = QuestionId(t)]
            /\ outcome' = outcome
  /\ UNCHANGED <<post, answer, tsCounter, storeVars, promiseVars,
                 timerVars, microtasks, feedVars, debugVars>>

AskStart(a) ==
  /\ \A b \in Asks : b < a => pc[b] # "idle"
  /\ AskBegin(a, NotReady)
  /\ UNCHANGED connVars
  /\ UNCHANGED extVars

\* ------------------------------------------------- chat.postMessage
\* The backend stores the question and issues its timestamp; the response may
\* carry it (ts is optional in the response type) or not.
BackendAccept(a) ==
  /\ UNCHANGED extVars
  /\ microtasks = <<>>
  /\ pc[a] = "posting"
  /\ \E t \in {Some(tsCounter + 1), None} :
       post' = [post EXCEPT ![a] = [status |-> "ok", ts |-> t]]
  /\ tsCounter' = tsCounter + 1
  /\ pc' = [pc EXCEPT ![a] = "accepted"]
  /\ UNCHANGED <<now, qid, outcome, answer, storeVars, promiseVars, timerVars,
                 microtasks, feedVars, debugVars, connVars>>

\* The backend refuses the message: the call throws, or returns ok = false.
BackendReject(a) ==
  /\ UNCHANGED extVars
  /\ microtasks = <<>>
  /\ pc[a] = "posting"
  /\ \E st \in {"notok", "throw"} :
       post' = [post EXCEPT ![a] = [status |-> st, ts |-> None]]
  /\ pc' = [pc EXCEPT ![a] = "refused"]
  /\ UNCHANGED <<now, qid, outcome, answer, tsCounter, storeVars, promiseVars,
                 timerVars, microtasks, feedVars, debugVars, connVars>>

\* ------------------------------------------ ask: after await postMessage
PendingRecord(a) ==
  [id |-> qid[a], channel |-> channelId, user |-> userId,
   threadTs |-> post[a].ts, response |-> None, received |-> FALSE,
   owner |-> a]

\* pendingResponses.set(questionId, pendingResponse)
AskInsertPending(a) == MapSet(pendingResponses, PendingRecord(a))

\* this.responseResolvers.set(questionId, resolve)
AskInsertResolver(a) == ResolverSet(responseResolvers, qid[a], a)

\* outer catch: this.pendingResponses.delete(questionId)
AskOuterCleanup(a) == MapDelete(pendingResponses, qid[a])

SendOk_OkUnchecked(a) == post[a].status # "throw"

\* postMessage returned, and not `if (!result.ok) throw`
SendOk(a) == post[a].status = "ok"

\* The response of chat.postMessage arrives and ask runs on to
\* `await responsePromise`, or to the throw of the outer catch.
AskResume(a) ==
  /\ UNCHANGED extVars
  /\ microtasks = <<>>
  /\ pc[a] \in {"accepted", "refused"}
  /\ IF SendOk(a)
       THEN /\ pendingResponses' = AskInsertPending(a)
            /\ responseResolvers' = AskInsertResolver(a)
            /\ promise' = [promise EXCEPT ![a] = "pending"]
            /\ timers' = Append(timers, a)
            /\ deadline' = [deadline EXCEPT ![a] = now + Timeout]
            /\ pc' = [pc EXCEPT ![a] = "waiting"]
            /\ outcome' = outcome
       ELSE /\ pendingResponses' = AskOuterCleanup(a)
            /\ pc' = [pc EXCEPT ![a] = "done"]
            /\ outcome' = [outcome EXCEPT ![a] = "SendFailed"]
            /\ UNCHANGED <<responseResolvers, promise, timers, deadline>>
  /\ UNCHANGED <<now, qid, post, answer, tsCounter, value, calls, fired,
                 microtasks, feedVars, debugVars, connVars>>

\* ------------------------------------------------------- microtask jobs
NoEvent ==
  [type |-> "none", channel |-> "none", user |-> "none", text |-> None,
   thread_ts |-> None, bot_id |-> None, seq |-> 0]

HandleJob(e) == [kind |-> "handle", ev |-> e, ask |-> 0]
ThenJob(a) == [kind |-> "then", ev |-> NoEvent, ask |-> a]
CatchJob(a) == [kind |-> "catch", ev |-> NoEvent, ask |-> a]

\* ------------------------------------------------- the 60 s timer callback
\* Timers of equal delay expire in the order they were set, never early: the
\* callback of the oldest one runs once the clock has reached its deadline.
\* if (this.responseResolvers.has(questionId)) { delete; reject(...) }
TimerHasResolver(a) == qid[a] \in DOMAIN responseResolvers

TimerFire ==
  /\ UNCHANGED extVars
  /\ microtasks = <<>>
  /\ timers # <<>>
  /\ LET a == Head(timers) IN
       /\ now' = IF now < deadline[a] THEN deadline[a] ELSE now
       /\ timers' = Tail(timers)
       /\ fired' = fired \cup {a}
       /\ IF TimerHasResolver(a)
            THEN /\ responseResolvers' = ResolverDelete(responseResolvers, qid[a])
                 /\ calls' = [calls EXCEPT ![a] = @ + 1]
                 /\ IF promise[a] = "pending"
                      THEN /\ promise' = [promise EXCEPT ![a] = "rejected"]
                           /\ microtasks' = <<CatchJob(a)>>
                      ELSE UNCHANGED <<promise, microtasks>>
            ELSE UNCHANGED <<responseResolvers, calls, promise, microtasks>>
  /\ UNCHANGED <<askVars, tsCounter, pendingResponses, value, deadline,
                 feedVars, debugVars, connVars>>

\* ------------------------------------- ask: after await responsePromise
AskThenCleanup_Kept(a) == pendingResponses

\* success: this.pendingResponses.delete(questionId); return response
AskThenCleanup(a) == MapDelete(pendingResponses, qid[a])

AskCatchPending_Kept(a) == pendingResponses

\* failure: this.pendingResponses.delete(questionId)
AskCatchPending(a) == MapDelete(pendingResponses, qid[a])

\* failure: this.responseResolvers.delete(questionId)
AskCatchResolvers(a) == ResolverDelete(responseResolvers, qid[a])

RunThen(a) ==
  /\ UNCHANGED extVars
  /\ pendingResponses' = AskThenCleanup(a)
  /\ pc' = [pc EXCEPT ![a] = "done"]
  /\ outcome' = [outcome EXCEPT ![a] = "Reply"]
  /\ answer' = [answer EXCEPT ![a] = value[a]]
  /\ microtasks' = Tail(microtasks)
  /\ UNCHANGED <<now, qid, post, tsCounter, responseResolvers, promiseVars,
                 timerVars, feedVars, debugVars, connVars>>

RunCatch(a) ==
  /\ UNCHANGED extVars
  /\ pendingResponses' = AskCatchPending(a)
  /\ responseResolvers' = AskCatchResolvers(a)
  /\ pc' = [pc EXCEPT ![a] = "done"]
  /\ outcome' = [outcome EXCEPT ![a] = "Timeout"]
  /\ microtasks' = Tail(microtasks)
  /\ UNCHANGED <<now, qid, post, answer, tsCounter, promiseVars, timerVars,
                 feedVars, debugVars, connVars>>

\* ------------------------------------------- handleSocketModeRequest
IsCandidate_NoBotCheck(e) == e.type = "message"

\* event.type === 'message' && !event.bot_id
IsCandidate(e) == e.type = "message" /\ e.bot_id = None

Matches_NoChannel(e, r) == e.user = r.user /\ e.thread_ts = r.threadTs

\* channelId === questionData.channel && userId === questionData.user, then
\* threadTs === questionData.threadTs
Matches(e, r) ==
  /\ e.channel = r.channel
  /\ e.user = r.user
  /\ e.thread_ts = r.threadTs

\* The for loop over pendingResponses.entries() with its break: the position
\* of the first matching entry, 0 when there is none.
FirstMatch(m, e) ==
  IF \E i \in 1..Len(m) : Matches(e, m[i])
    THEN CHOOSE i \in 1..Len(m) :
           /\ Matches(e, m[i])
           /\ \A j \in 1..(i - 1) : ~Matches(e, m[j])
    ELSE 0

TextOf_Raw(e) == e.text

\* event.text || ''
TextOf(e) == IF e.text = None THEN <<>> ELSE e.text[1]

\* String.prototype.slice(0, n)
Slice(t, n) == SubSeq(t, 1, IF Len(t) < n THEN Len(t) ELSE n)

\* Date.now() / 1000: seconds and the fraction in ms
Seconds(t) == <<t \div 1000, t % 1000>>

LogEntry(e) ==
  [timestamp |-> Seconds(now), channel |-> e.channel, user |-> e.user,
   text |-> Slice(TextOf(e), TextLogLen), threadTs |-> e.thread_ts,
   botId |-> e.bot_id]

CountEvent_MessagesOnly(n, e) == IF e.type = "message" THEN n + 1 ELSE n

\* this.eventCount++, before the type of the event is looked at
CountEvent(n, e) == n + 1

\* this.messageLog.push(messageInfo); shift() when longer than 50
LogPush_NoShift(log, e) ==
  IF e.type = "message" THEN Append(log, LogEntry(e)) ELSE log

LogPush(log, e) ==
  IF e.type = "message"
    THEN LET l == Append(log, LogEntry(e))
         IN  IF Len(l) > LogLimit THEN Tail(l) ELSE l
    ELSE log

\* Every entry pushed so far, none dropped.
LogAll(all, e) == IF e.type = "message" THEN Append(all, LogEntry(e)) ELSE all

\* The entry the loop stops at for event e, 0 when the event is skipped or
\* matches nothing.
MatchIndex(e) ==
  IF IsCandidate(e) THEN FirstMatch(pendingResponses, e) ELSE 0

\* const resolver = this.responseResolvers.get(questionId): the ask call whose
\* resolve function is called for event e, 0 when none is.
ResolverOf(e) ==
  LET i == MatchIndex(e) IN
    IF i # 0 /\ pendingResponses[i].id \in DOMAIN responseResolvers
      THEN responseResolvers[pendingResponses[i].id]
      ELSE 0

\* A question is Waiting while its ask call is suspended on a promise that
\* is neither fulfilled nor rejected.
Waiting(a) == pc[a] = "waiting" /\ promise[a] = "pending"

\* questionData.response = text; questionData.received = true
MarkReceived(m, i, e) ==
  [m EXCEPT ![i] = [m[i] EXCEPT !.response = Some(TextOf(e)),
                                !.received = TRUE]]

Handoff_CallerFirst(q, a) == <<ThenJob(a)>> \o q

\* resolver(text): resolve settles the promise and queues the continuation
\* of the ask call that awaits it behind the jobs q already queued.
Handoff(q, a) == Append(q, ThenJob(a))

HandlerDeleteResolver_Kept(id) == responseResolvers

\* this.responseResolvers.delete(questionId), after the resolver was called
HandlerDeleteResolver(id) == ResolverDelete(responseResolvers, id)

RunHandle_NoBreak(e) ==
  LET n == Len(pendingResponses)
      hit == IF IsCandidate(e)
               THEN {i \in 1..n : Matches(e, pendingResponses[i])}
               ELSE {}
      ids == {pendingResponses[i].id : i \in hit} \cap DOMAIN responseResolvers
      woken == {responseResolvers[k] : k \in ids}
      fresh == {a \in woken : promise[a] = "pending"}
      F[k \in 0..MaxAsks] ==
        IF k = 0 THEN <<>>
        ELSE IF k \in fresh THEN Append(F[k - 1], ThenJob(k)) ELSE F[k - 1]
  IN
  /\ UNCHANGED extVars
  /\ eventCount' = CountEvent(eventCount, e)
  /\ messageLog' = LogPush(messageLog, e)
  /\ logged' = LogAll(logged, e)
  /\ lastHandled' = [ev |-> e, waiting |-> {x \in Asks : Waiting(x)},
                     fired |-> fired]
  /\ pendingResponses' =
       IF hit = {} THEN pendingResponses
       ELSE [i \in 1..n |->
               IF i \in hit
                 THEN [pendingResponses[i] EXCEPT !.response = Some(TextOf(e)),
                                                  !.received = TRUE]
                 ELSE pendingResponses[i]]
  /\ responseResolvers' =
       [k \in (DOMAIN responseResolvers) \ ids |-> responseResolvers[k]]
  /\ calls' = [a \in Asks |-> IF a \in woken THEN calls[a] + 1 ELSE calls[a]]
  /\ promise' = [a \in Asks |-> IF a \in fresh THEN "fulfilled" ELSE promise[a]]
  /\ value' = [a \in Asks |-> IF a \in fresh THEN TextOf(e) ELSE value[a]]
  /\ microtasks' = Tail(microtasks) \o F[MaxAsks]
  /\ UNCHANGED <<now, askVars, tsCounter, timerVars, feedVars, connVars>>

RunHandle(e) ==
  LET i == MatchIndex(e)
      a == ResolverOf(e)
  IN
  /\ UNCHANGED extVars
  /\ eventCount' = CountEvent(eventCount, e)
  /\ messageLog' = LogPush(messageLog, e)
  /\ logged' = LogAll(logged, e)
  /\ lastHandled' = [ev |-> e, waiting |-> {x \in Asks : Waiting(x)},
                     fired |-> fired]
  /\ pendingResponses' =
       IF i = 0 THEN pendingResponses ELSE MarkReceived(pendingResponses, i, e)
  /\ IF a = 0
       THEN /\ UNCHANGED <<responseResolvers, promiseVars>>
            /\ microtasks' = Tail(microtasks)
       ELSE /\ responseResolvers' =
                 HandlerDeleteResolver(pendingResponses[i].id)
            /\ calls' = [calls EXCEPT ![a] = @ + 1]
            /\ IF promise[a] = "pending"
                 THEN /\ promise' = [promise EXCEPT ![a] = "fulfilled"]
                      /\ value' = [value EXCEPT ![a] = TextOf(e)]
                      /\ microtasks' = Handoff(Tail(microtasks), a)
                 ELSE /\ UNCHANGED <<promise, value>>
                      /\ microtasks' = Tail(microtasks)
  /\ UNCHANGED <<now, askVars, tsCounter, timerVars, feedVars, connVars>>

\* A value of event.text that is not a string.
BadText == <<"object">>

\* handleSocketModeRequest throws for event e: the event is undefined (the
\* read of event.type throws), or its text is not a string (slice is not a
\* function).
Throws(e) ==
  \/ e.type = "undefined"
  \/ e.type = "message" /\ e.text = Some(BadText)

UnhandledRejection_Exits(q) == <<>>

\* The promise of the listener rejects with no catch: the process-wide
\* 'unhandledRejection' handler logs it and the event loop goes on with the
\* jobs q that are queued.
UnhandledRejection(q) == q

\* handleSocketModeRequest throws: an undefined event before eventCount++, a
\* text that is not a string after it and before the log entry is pushed.
RunHandleThrows(e) ==
  /\ UNCHANGED extVars
  /\ eventCount' = IF e.type = "undefined" THEN eventCount
                                           ELSE CountEvent(eventCount, e)
  /\ lastHandled' = [ev |-> e, waiting |-> {x \in Asks : Waiting(x)},
                     fired |-> fired]
  /\ microtasks' = UnhandledRejection(Tail(microtasks))
  /\ UNCHANGED <<now, askVars, tsCounter, storeVars, promiseVars, timerVars,
                 feedVars, messageLog, logged, connVars>>

\* The event loop runs the oldest job of the microtask queue.
RunMicrotask ==
  /\ microtasks # <<>>
  /\ LET j == Head(microtasks) IN
       \/ j.kind = "handle" /\ ~Throws(j.ev) /\ RunHandle(j.ev)
       \/ j.kind = "handle" /\ Throws(j.ev) /\ RunHandleThrows(j.ev)
       \/ j.kind = "then" /\ RunThen(j.ask)
       \/ j.kind = "catch" /\ RunCatch(j.ask)

\* --------------------------------------------------- the inbound feed
Texts == {None, Some(TextYes)}

\* Thread anchors an event can carry: none (a top-level message) or the
\* timestamp of a message the backend has stored.
Threads == {None} \cup {Some(t) : t \in 1..tsCounter}

\* Messages of the expected user in the configured channel.
ReplyEvents ==
  [type : {"message"}, channel : {channelId}, user : {userId}, text : Texts,
   thread_ts : Threads, bot_id : {None}, seq : {emitted + 1}]

\* Messages of any user in any channel.
HumanMessages ==
  [type : {"message"}, channel : Channels, user : Users, text : Texts,
   thread_ts : Threads, bot_id : {None}, seq : {emitted + 1}]

\* Messages of a bot, the server's own among them.
BotMessages ==
  [type : {"message"}, channel : {channelId}, user : {userId},
   text : {Some(TextYes)}, thread_ts : Threads, bot_id : {Some("B1")},
   seq : {emitted + 1}]

\* Events of another type.
OtherEvents ==
  [type : {"app_mention"}, channel : {channelId}, user : {userId},
   text : {None}, thread_ts : {None}, bot_id : {None}, seq : {emitted + 1}]

Events == HumanMessages \cup BotMessages \cup OtherEvents

\* Events the handler cannot process: no event object, or a message of the
\* expected user whose text is not a string.
MalformedEvents ==
  [type : {"undefined"}, channel : {"none"}, user : {"none"}, text : {None},
   thread_ts : {None}, bot_id : {None}, seq : {emitted + 1}]
  \cup
  [type : {"message"}, channel : {channelId}, user : {userId},
   text : {Some(BadText)}, thread_ts : {None}, bot_id : {None},
   seq : {emitted + 1}]

\* The socket client emits 'message': the listener of setHandler starts
\* `await ack()`.
Emit(e, max) ==
  /\ UNCHANGED extVars
  /\ microtasks = <<>>
  /\ handler = "set"
  /\ emitted < max
  /\ emitted' = emitted + 1
  /\ acking' = Append(acking, e)
  /\ UNCHANGED <<now, askVars, tsCounter, storeVars, promiseVars, timerVars,
                 microtasks, odd, rejected, debugVars, connVars>>

\* The orders in which one I/O callback can complete acks in flight: every
\* non-empty sequence of distinct positions of acking.
AckOrders ==
  LET n == Len(acking) IN
    {o \in UNION {[1..k -> 1..n] : k \in 1..n} :
       \A x, y \in DOMAIN o : x # y => o[x] # o[y]}

Remaining(o) ==
  LET keep == {i \in 1..Len(acking) : \A x \in DOMAIN o : o[x] # i}
      F[i \in 0..Len(acking)] ==
        IF i = 0 THEN <<>>
        ELSE IF i \in keep THEN Append(F[i - 1], acking[i]) ELSE F[i - 1]
  IN F[Len(acking)]

\* ack() of the events o completes: each listener resumes with
\* `await this.handleSocketModeRequest(event)`.
AckDone(o) ==
  /\ UNCHANGED extVars
  /\ microtasks = <<>>
  /\ microtasks' = [x \in DOMAIN o |-> HandleJob(acking[o[x]])]
  /\ acking' = Remaining(o)
  /\ UNCHANGED <<now, askVars, tsCounter, storeVars, promiseVars, timerVars,
                 emitted, odd, rejected, debugVars, connVars>>

AckCatch_Handles(e) == <<HandleJob(e)>>

\* The listener has no catch around `await ack()`: a rejected ack() ends it,
\* and no job is queued for the event.
AckCatch(e) == <<>>

\* ack() of one event rejects: its listener ends without handling the event.
AckFail(i) ==
  /\ UNCHANGED extVars
  /\ microtasks = <<>>
  /\ i \in 1..Len(acking)
  /\ acking' = Remaining(<<i>>)
  /\ rejected' = rejected \cup {acking[i].seq}
  /\ microtasks' = AckCatch(acking[i])
  /\ UNCHANGED <<now, askVars, tsCounter, storeVars, promiseVars, timerVars,
                 emitted, odd, debugVars, connVars>>

\* ------------------------------------------------------ the connection
\* index.ts, on-demand initialization: human.setHandler(slackHandler)
SetHandler ==
  /\ UNCHANGED extVars
  /\ microtasks = <<>>
  /\ handler = "none"
  /\ handler' = "set"
  /\ UNCHANGED <<now, isReady, askVars, tsCounter, storeVars, promiseVars,
                 timerVars, microtasks, feedVars, debugVars>>

\* SlackHandler.start(): this.isReady = true
HandlerReady ==
  /\ UNCHANGED extVars
  /\ microtasks = <<>>
  /\ handler = "set"
  /\ ~isReady
  /\ isReady' = TRUE
  /\ UNCHANGED <<now, handler, askVars, tsCounter, storeVars, promiseVars,
                 timerVars, microtasks, feedVars, debugVars>>

\* the 'disconnect' listener: this.isReady = false
Disconnect ==
  /\ UNCHANGED extVars
  /\ microtasks = <<>>
  /\ isReady
  /\ isReady' = FALSE
  /\ UNCHANGED <<now, handler, askVars, tsCounter, storeVars, promiseVars,
                 timerVars, microtasks, feedVars, debugVars>>

\* ------------------------------------------------ SlackHandler.start()
\* The socket client, a library, is described by what the program observes:
\* socketClient.connected is true from the 'connected' event to the next
\* 'disconnect' event, and the promise of socketClient.start() is settled by
\* the time 'connected' has been emitted.
coreVars == <<now, askVars, tsCounter, storeVars, promiseVars, timerVars,
              microtasks, feedVars, debugVars>>

NoPromise == [state |-> "null", owner |-> 0]
NoResult == [kind |-> "none", text |-> <<>>]
TextResult(t) == [kind |-> "text", text |-> t]

\* socketClient.start() on a client that is not connecting yet.
SocketStart(st) == IF st \in {"idle", "failed"} THEN "connecting" ELSE st

StartJoins_Never == FALSE

\* if (this.startPromise) return this.startPromise
StartJoins == client = "new" /\ startPromise.state # "null"

\* start() up to its first await.
StartBegin(c) ==
  IF StartJoins
    THEN /\ got' = [got EXCEPT ![c] = startPromise.owner]
         /\ sp' = [sp EXCEPT ![c] =
                     CASE startPromise.state = "pending" -> "joined"
                       [] startPromise.state = "fulfilled" -> "done"
                       [] OTHER -> "failed"]
         /\ UNCHANGED <<startPromise, doStarts>>
    ELSE /\ got' = [got EXCEPT ![c] = c]
         /\ sp' = [sp EXCEPT ![c] = "auth"]
         /\ doStarts' = doStarts + 1
         /\ startPromise' = IF client = "new"
                              THEN [state |-> "pending", owner |-> c]
                              ELSE startPromise

\* The start sequence of call c ends: its promise settles, and with it every
\* call that was handed the same promise.
Settle(c, st) ==
  /\ sp' = [d \in Calls |->
              IF d = c \/ (client = "new" /\ sp[d] = "joined")
                THEN st ELSE sp[d]]
  /\ startPromise' =
       IF client = "new"
         THEN [startPromise EXCEPT
                 !.state = IF st = "done" THEN "fulfilled" ELSE "rejected"]
         ELSE startPromise

\* A caller invokes handler.start().
StartCall(c) ==
  /\ sp[c] = "none"
  /\ \A b \in Calls : b < c => sp[b] # "none"
  /\ StartBegin(c)
  /\ UNCHANGED <<client, sock, sockStarts, toolVars, pollVars, coreVars,
                 connVars>>

\* auth.test succeeds: the old start() calls socketClient.start(); _doStart
\* returns at once when the socket is connected and else calls
\* socketClient.start() and waits for it and for 'connected'.
AuthOk(c) ==
  /\ sp[c] = "auth"
  /\ IF client = "new" /\ sock = "connected"
       THEN /\ isReady' = TRUE
            /\ Settle(c, "done")
            /\ UNCHANGED <<sock, sockStarts>>
       ELSE /\ sockStarts' = sockStarts + 1
            /\ sock' = SocketStart(sock)
            /\ sp' = [sp EXCEPT ![c] = "sockstart"]
            /\ UNCHANGED <<isReady, startPromise>>
  /\ UNCHANGED <<client, got, doStarts, handler, toolVars, pollVars, coreVars>>

\* auth.test fails or throws: start() rejects.
AuthFail(c) ==
  /\ sp[c] = "auth"
  /\ Settle(c, "failed")
  /\ UNCHANGED <<client, sock, got, doStarts, sockStarts, toolVars, pollVars,
                 coreVars, connVars>>

\* Calls whose await of socketClient.start() alone is pending: the old
\* start(), and the reconnection path of the tool handler.
AwaitsSocketStart(c) ==
  \/ client = "old" /\ sp[c] = "sockstart"
  \/ tool[c] = "dynstart"

\* The promise of socketClient.start() is fulfilled.
SockStartResolves ==
  /\ sock \in {"connecting", "connected"}
  /\ \E c \in Calls : AwaitsSocketStart(c)
  /\ sp' = [c \in Calls |->
              IF client = "old" /\ sp[c] = "sockstart"
                THEN "waitconn" ELSE sp[c]]
  /\ tool' = [c \in Calls |->
                IF tool[c] = "dynstart" THEN "dynwait" ELSE tool[c]]
  /\ UNCHANGED <<client, sock, startPromise, got, doStarts, sockStarts,
                 result, handlers, listeners, steady, retries, pollVars, coreVars,
                 connVars>>

\* The socket connects or reconnects and 'connected' is emitted: the listener
\* of part_004 sets isReady, and a _doStart waiting in Promise.all goes on to
\* set isReady and return.
SockConnected ==
  /\ sock \in {"connecting", "reconnecting"}
  /\ sock' = "connected"
  /\ isReady' = IF client = "new" THEN TRUE ELSE isReady
  /\ IF client = "new" /\ \E c \in Calls : sp[c] = "sockstart"
       THEN /\ sp' = [c \in Calls |->
                        IF sp[c] \in {"sockstart", "joined"}
                          THEN "done" ELSE sp[c]]
            /\ startPromise' = [startPromise EXCEPT !.state = "fulfilled"]
       ELSE UNCHANGED <<sp, startPromise>>
  /\ UNCHANGED <<client, got, doStarts, sockStarts, handler, toolVars,
                 pollVars, coreVars>>

\* The connection is lost and 'disconnect' is emitted; the socket client
\* reconnects by itself.
SockDisconnect ==
  /\ sock = "connected"
  /\ sock' = "reconnecting"
  /\ isReady' = FALSE
  /\ steady' = {}
  /\ retries' = {}
  /\ UNCHANGED <<client, startPromise, sp, got, doStarts, sockStarts, tool,
                 result, handlers, listeners, handler, pollVars, coreVars>>

\* The connection cannot be established: socketClient.start() rejects, and
\* so does every call waiting for it.
SockFail ==
  /\ sock = "connecting"
  /\ sock' = "failed"
  /\ sp' = [c \in Calls |->
              IF sp[c] = "sockstart" \/ (client = "new" /\ sp[c] = "joined")
                THEN "failed" ELSE sp[c]]
  /\ startPromise' =
       IF client = "new" /\ startPromise.state = "pending"
                         /\ sp[startPromise.owner] = "sockstart"
         THEN [startPromise EXCEPT !.state = "rejected"]
         ELSE startPromise
  /\ tool' = [c \in Calls |->
                IF tool[c] = "dynstart" THEN "returned" ELSE tool[c]]
  /\ result' = [c \in Calls |->
                  IF tool[c] = "dynstart"
                    THEN TextResult(<<"Error: Socket connection failed">>)
                    ELSE result[c]]
  /\ UNCHANGED <<client, got, doStarts, sockStarts, handlers, listeners,
                 steady, retries, pollVars, coreVars, connVars>>

\* slack-client.ts: checkConnection finds socketClient.connected.
WaitConnOk(c) ==
  /\ client = "old"
  /\ sp[c] = "waitconn"
  /\ sock = "connected"
  /\ sp' = [sp EXCEPT ![c] = "stabilise"]
  /\ UNCHANGED <<client, sock, startPromise, got, doStarts, sockStarts,
                 toolVars, pollVars, coreVars, connVars>>

\* slack-client.ts: the 5 s timer rejects connectedPromise; start() logs a
\* warning and proceeds.
WaitConnTimeout(c) ==
  /\ client = "old"
  /\ sp[c] = "waitconn"
  /\ sp' = [sp EXCEPT ![c] = "stabilise"]
  /\ UNCHANGED <<client, sock, startPromise, got, doStarts, sockStarts,
                 toolVars, pollVars, coreVars, connVars>>

StabilisedReady_NoMonitor == TRUE

\* this.isReady = true, and then the first pass of runSocketClient, which
\* runs before start() returns: if (!this.socketClient.connected)
\* this.isReady = false
StabilisedReady == sock = "connected"

\* slack-client.ts: the 200 ms wait is over and start() returns.
Stabilised(c) ==
  /\ client = "old"
  /\ sp[c] = "stabilise"
  /\ isReady' = StabilisedReady
  /\ Settle(c, "done")
  /\ UNCHANGED <<client, sock, got, doStarts, sockStarts, handler, toolVars,
                 pollVars, coreVars>>

\* part_004: the 30 s timer rejects connectedPromise and _doStart throws.
ConnTimeout(c) ==
  /\ client = "new"
  /\ sp[c] = "sockstart"
  /\ Settle(c, "failed")
  /\ UNCHANGED <<client, sock, got, doStarts, sockStarts, toolVars, pollVars,
                 coreVars, connVars>>

\* The steps of start() after the call, and of the socket client.
StartStep ==
  \/ \E c \in Calls : AuthOk(c)
  \/ \E c \in Calls : AuthFail(c)
  \/ SockStartResolves
  \/ SockConnected
  \/ SockDisconnect
  \/ SockFail
  \/ \E c \in Calls : WaitConnOk(c)
  \/ \E c \in Calls : WaitConnTimeout(c)
  \/ \E c \in Calls : Stabilised(c)
  \/ \E c \in Calls : ConnTimeout(c)

\* --------------------------------------- index.ts: the ask_on_slack tool
\* A continuation that runs as soon as the promise it awaits has settled,
\* before any timer, response or socket event is processed.
ContinuationDue(c) ==
  \/ tool[c] = "init" /\ sp[c] \in {"done", "failed"}
  \/ c \in Asks /\ tool[c] = "asking" /\ pc[c] = "done"

Settled == \A c \in Calls : ~ContinuationDue(c)

ErrorText(t) == TextResult(<<t>>)

AskError_Thrown(o) == [kind |-> "thrown", text |-> <<o>>]

\* catch (error) { return { content: [{ type: 'text',
\*   text: `Error asking human: ${String(error)}` }] } }
AskError(o) == TextResult(<<"Error asking human", o>>)

HandlerMissing_NotReady == ~isReady

\* if (!human.handler)
HandlerMissing == handler = "none"

\* The tool call returns the text t without having called human.ask.
ReturnError(c, t) ==
  /\ tool' = [tool EXCEPT ![c] = "returned"]
  /\ result' = [result EXCEPT ![c] = ErrorText(t)]
  /\ UNCHANGED coreVars

\* The final check, ready being the value of isReady it reads, and the call
\* of human.ask that follows it without an await in between.
FinalCheck(c, ready) ==
  IF ready
    THEN /\ IF c \in Asks THEN AskBegin(c, handler = "none" \/ ~ready)
                           ELSE UNCHANGED coreVars
         /\ tool' = [tool EXCEPT ![c] = "asking"]
         /\ result' = result
    ELSE ReturnError(c, "Error: Slack not ready after retry")

\* if (!human.handler!.isReady): verify the authentication first.
ReadyCheck(c) ==
  IF ~isReady
    THEN /\ tool' = [tool EXCEPT ![c] = "dynauth"]
         /\ UNCHANGED <<result, coreVars>>
    ELSE FinalCheck(c, isReady)

\* An earlier call has returned the failure of slackHandler.start().
InitFailed ==
  \E d \in Calls : result[d] = ErrorText("Error: Failed to initialize Slack")

\* No start sequence is in progress.
StartsOver == \A d \in Calls : sp[d] \in {"none", "done", "failed"}

\* An ask_on_slack request arrives. Without a handler the call creates one,
\* registers it and awaits its start(); with one it goes on to the readiness
\* check.
ToolCall(c) ==
  /\ tool[c] = "idle"
  /\ \A b \in Calls : b < c => tool[b] # "idle"
  /\ steady' = IF sock = "connected" /\ StartsOver
                 THEN steady \cup {c} ELSE steady
  /\ retries' = IF InitFailed /\ sock \in {"idle", "failed", "connecting"}
                  THEN retries \cup {c} ELSE retries
  /\ IF HandlerMissing
       THEN /\ handlers' = handlers + 1
            /\ listeners' = listeners + 1
            /\ handler' = "set"
            /\ StartBegin(c)
            /\ tool' = [tool EXCEPT ![c] = "init"]
            /\ UNCHANGED <<result, coreVars>>
       ELSE /\ ReadyCheck(c)
            /\ UNCHANGED <<handlers, listeners, handler, startPromise, sp,
                           got, doStarts>>
  /\ UNCHANGED <<client, sock, sockStarts, isReady, pollVars>>

\* await slackHandler.start() has settled.
ToolInitDone(c) ==
  /\ tool[c] = "init"
  /\ sp[c] \in {"done", "failed"}
  /\ IF sp[c] = "failed"
       THEN ReturnError(c, "Error: Failed to initialize Slack")
       ELSE ReadyCheck(c)
  /\ UNCHANGED <<startVars, handlers, listeners, steady, retries, connVars, pollVars>>

\* auth.test of the reconnection path succeeds: start the socket client
\* unless it is connected.
DynAuthOk(c) ==
  /\ tool[c] = "dynauth"
  /\ IF sock # "connected"
       THEN /\ sockStarts' = sockStarts + 1
            /\ sock' = SocketStart(sock)
            /\ tool' = [tool EXCEPT ![c] = "dynstart"]
            /\ UNCHANGED <<result, coreVars>>
       ELSE /\ FinalCheck(c, isReady)
            /\ UNCHANGED <<sock, sockStarts>>
  /\ UNCHANGED <<client, startPromise, sp, got, doStarts, handlers, listeners,
                 steady, retries, connVars, pollVars>>

\* auth.test of the reconnection path fails or throws.
DynAuthFail(c) ==
  /\ tool[c] = "dynauth"
  /\ ReturnError(c, "Error: Slack auth test failed")
  /\ UNCHANGED <<startVars, handlers, listeners, steady, retries, connVars, pollVars>>

\* human.handler!.isReady = true
DynReady == TRUE

\* The polling loop of the reconnection path finds the socket connected.
DynConnected(c) ==
  /\ tool[c] = "dynwait"
  /\ sock = "connected"
  /\ isReady' = DynReady
  /\ FinalCheck(c, DynReady)
  /\ UNCHANGED <<startVars, handlers, listeners, steady, retries, handler, pollVars>>

\* 20 polls have found the socket not connected.
DynTimeout(c) ==
  /\ tool[c] = "dynwait"
  /\ sock # "connected"
  /\ IF ~isReady
       THEN ReturnError(c, "Error: Socket session timeout")
       ELSE FinalCheck(c, isReady)
  /\ UNCHANGED <<startVars, handlers, listeners, steady, retries, connVars, pollVars>>

\* await human.ask(question) has settled: the reply, or the error as a text.
ToolReturn(c) ==
  /\ c \in Asks
  /\ tool[c] = "asking"
  /\ pc[c] = "done"
  /\ tool' = [tool EXCEPT ![c] = "returned"]
  /\ result' = [result EXCEPT ![c] =
                  IF outcome[c] = "Reply" THEN TextResult(answer[c])
                                          ELSE AskError(outcome[c])]
  /\ UNCHANGED <<startVars, handlers, listeners, steady, retries, connVars, pollVars,
                 coreVars>>

\* ------------------------------- streaming ask and polling ask compared
\* One question, posted with timestamp 1, asked through HumanInSlack and
\* through SimpleHumanInSlack; the same replies are posted in its thread.
Pending == [kind |-> "pending", text |-> <<>>]
Returned(t) == [kind |-> "Reply", text |-> t]
TimedOut == [kind |-> "Timeout", text |-> <<>>]
Failed(k) == [kind |-> k, text |-> <<>>]

ComparedQuestion ==
  [channel |-> channelId, user |-> userId, threadTs |-> Some(1)]

\* Messages a user or a bot can post in the thread.
ThreadMessages ==
  [type : {"message"}, channel : {channelId}, user : Users, text : Texts,
   thread_ts : {Some(1)}, bot_id : {None, Some("B1")},
   seq : {Len(thread) + 1}]

\* The record the streaming ask keeps of the compared question: threadTs is
\* undefined when chat.postMessage answered without a timestamp.
AskedQuestion ==
  [ComparedQuestion EXCEPT !.threadTs = IF ppc = "blind" THEN None
                                                          ELSE Some(1)]

\* handleSocketModeRequest for message m with the compared question pending.
StreamDeliver(r, m) ==
  IF r = Pending /\ IsCandidate(m) /\ Matches(m, AskedQuestion)
    THEN Returned(TextOf(m))
    ELSE r

\* conversations.replies with limit 10: the question and the first replies.
PollSeen(t) == SubSeq(t, 1, IF Len(t) < PollLimit - 1 THEN Len(t)
                                                     ELSE PollLimit - 1)

\* msg.user === this.userId && msg.text
PollAccepts(m) == m.user = userId /\ m.text # None /\ m.text # Some(<<>>)

\* for (const msg of replies.messages.slice(1)) ... return msg.text
PollScan(t) ==
  LET seen == PollSeen(t)
      hits == {i \in 1..Len(seen) : PollAccepts(seen[i])}
  IN  IF hits = {} THEN Pending
      ELSE Returned(seen[CHOOSE i \in hits : \A j \in hits : i <= j].text[1])

\* Both asks are called: each throws when its handler is missing or not
\* ready, and posts the question otherwise.
PollAsk(ready) ==
  /\ ppc = "idle"
  /\ IF ready
       THEN /\ ppc' = "posting"
            /\ UNCHANGED <<sres, pres>>
       ELSE /\ ppc' = "done"
            /\ sres' = Failed("NotReady")
            /\ pres' = Failed("NotReady")
  /\ UNCHANGED <<thread, polled, elapsed, pfails>>
  /\ UNCHANGED <<startVars, toolVars>>
  /\ UNCHANGED <<now, askVars, tsCounter, storeVars, promiseVars, timerVars,
                 microtasks, feedVars, debugVars, connVars>>

\* chat.postMessage answers ok, with timestamp ts or without one; startTime
\* is taken and the polling loop is entered.
PollSendOk(ts) ==
  /\ ppc = "posting"
  /\ ppc' = IF ts = None THEN "blind" ELSE "polling"
  /\ UNCHANGED <<thread, sres, pres, polled, elapsed, pfails>>
  /\ UNCHANGED <<startVars, toolVars>>
  /\ UNCHANGED <<now, askVars, tsCounter, storeVars, promiseVars, timerVars,
                 microtasks, feedVars, debugVars, connVars>>

\* chat.postMessage answers not ok: 'Failed to send message'.
PollSendFail ==
  /\ ppc = "posting"
  /\ ppc' = "done"
  /\ sres' = Failed("SendFailed")
  /\ pres' = Failed("SendFailed")
  /\ UNCHANGED <<thread, polled, elapsed, pfails>>
  /\ UNCHANGED <<startVars, toolVars>>
  /\ UNCHANGED <<now, askVars, tsCounter, storeVars, promiseVars, timerVars,
                 microtasks, feedVars, debugVars, connVars>>

\* A message is posted in the thread while a question is waiting; the socket
\* client delivers it to the streaming ask.
PollPost(m, max) ==
  /\ ppc \in {"polling", "blind", "done"}
  /\ Len(thread) < max
  /\ sres = Pending \/ pres = Pending
  /\ thread' = Append(thread, m)
  /\ sres' = StreamDeliver(sres, m)
  /\ UNCHANGED <<pres, polled, ppc, elapsed, pfails>>
  /\ UNCHANGED <<startVars, toolVars>>
  /\ UNCHANGED <<now, askVars, tsCounter, storeVars, promiseVars, timerVars,
                 microtasks, feedVars, debugVars, connVars>>

\* The 60 s timer of the streaming ask, set when the polling ask took its
\* startTime.
StreamExpire(r, e) == IF r = Pending /\ e >= PollTimeout THEN TimedOut ELSE r

\* await setTimeout(pollInterval), then the loop condition
\* Date.now() - startTime < timeout: the ask throws the Timeout error when
\* it no longer holds.
PollSleep ==
  /\ elapsed' = elapsed + PollInterval
  /\ pres' = IF elapsed' >= PollTimeout THEN TimedOut ELSE Pending
  /\ ppc' = IF elapsed' >= PollTimeout THEN "done" ELSE ppc
  /\ sres' = StreamExpire(sres, elapsed')

\* One round of the polling loop, conversations.replies answering: the first
\* accepted reply is returned, and the loop sleeps when there is none.
PollRound ==
  /\ ppc = "polling"
  /\ polled' = Len(thread)
  /\ IF PollScan(thread) # Pending
       THEN /\ pres' = PollScan(thread)
            /\ ppc' = "done"
            /\ UNCHANGED <<sres, elapsed>>
       ELSE PollSleep
  /\ UNCHANGED <<thread, pfails>>
  /\ UNCHANGED <<startVars, toolVars>>
  /\ UNCHANGED <<now, askVars, tsCounter, storeVars, promiseVars, timerVars,
                 microtasks, feedVars, debugVars, connVars>>

PollCatch_Rethrown == Failed("PollFailed")

\* catch (error) { logger.warn(...) } inside the loop: what a round whose
\* conversations.replies call throws makes of the ask.
PollCatch == Pending

\* One round of the polling loop, conversations.replies throwing; without a
\* thread timestamp every round throws.
PollFail ==
  /\ ppc \in {"polling", "blind"}
  /\ ppc = "polling" => pfails < MaxPollFails
  /\ pfails' = pfails + 1
  /\ IF PollCatch = Pending
       THEN PollSleep
       ELSE /\ pres' = PollCatch
            /\ ppc' = "done"
            /\ UNCHANGED <<sres, elapsed>>
  /\ UNCHANGED <<thread, polled>>
  /\ UNCHANGED <<startVars, toolVars>>
  /\ UNCHANGED <<now, askVars, tsCounter, storeVars, promiseVars, timerVars,
                 microtasks, feedVars, debugVars, connVars>>

\* The polling ask has ended and the streaming ask still waits: 2 s pass.
StreamWait ==
  /\ ppc = "done"
  /\ sres = Pending
  /\ elapsed' = elapsed + PollInterval
  /\ sres' = StreamExpire(sres, elapsed')
  /\ UNCHANGED <<thread, pres, polled, ppc, pfails>>
  /\ UNCHANGED <<startVars, toolVars>>
  /\ UNCHANGED <<now, askVars, tsCounter, storeVars, promiseVars, timerVars,
                 microtasks, feedVars, debugVars, connVars>>

\* ------------------------------------------------------- specification
InitCommon ==
  /\ now = 0
  /\ handler = "none"
  /\ isReady = FALSE
  /\ pc = [a \in Asks |-> "idle"]
  /\ qid = [a \in Asks |-> None]
  /\ post = [a \in Asks |-> [status |-> "none", ts |-> None]]
  /\ tsCounter = 0
  /\ pendingResponses = <<>>
  /\ responseResolvers = EmptyMap
  /\ promise = [a \in Asks |-> "none"]
  /\ value = [a \in Asks |-> <<>>]
  /\ calls = [a \in Asks |-> 0]
  /\ timers = <<>>
  /\ deadline = [a \in Asks |-> 0]
  /\ fired = {}
  /\ microtasks = <<>>
  /\ acking = <<>>
  /\ emitted = 0
  /\ eventCount = 0
  /\ messageLog = <<>>
  /\ outcome = [a \in Asks |-> "none"]
  /\ answer = [a \in Asks |-> <<>>]
  /\ lastHandled = [ev |-> NoEvent, waiting |-> {}, fired |-> {}]
  /\ logged = <<>>
  /\ odd = 0
  /\ rejected = {}
  /\ thread = <<>>
  /\ sres = Pending
  /\ pres = Pending
  /\ polled = 0
  /\ ppc = "idle"
  /\ elapsed = 0
  /\ pfails = 0
  /\ sock = "idle"
  /\ startPromise = NoPromise
  /\ sp = [c \in Calls |-> "none"]
  /\ got = [c \in Calls |-> 0]
  /\ doStarts = 0
  /\ sockStarts = 0
  /\ tool = [c \in Calls |-> "idle"]
  /\ result = [c \in Calls |-> NoResult]
  /\ handlers = 0
  /\ listeners = 0
  /\ steady = {}
  /\ retries = {}

\* index.ts imports SlackHandler from slack-client.ts.
Init == InitCommon /\ client = "old"

\* The SlackHandler of slack-client.ts or the one of part_004.
InitEither == InitCommon /\ client \in {"old", "new"}

\* The steps of the program and of its environment other than the feed.
Step ==
  \/ \E a \in Asks : AskStart(a)
  \/ \E a \in Asks : BackendAccept(a)
  \/ \E a \in Asks : BackendReject(a)
  \/ \E a \in Asks : AskResume(a)
  \/ TimerFire
  \/ RunMicrotask
  \/ \E o \in AckOrders : AckDone(o)
  \/ \E i \in 1..Len(acking) : AckFail(i)
  \/ SetHandler
  \/ HandlerReady
  \/ Disconnect

\* The feed carries up to MaxEvents messages of the expected user in the
\* configured channel.
Next ==
  \/ Step
  \/ \E e \in ReplyEvents : Emit(e, MaxEvents)

Spec == Init /\ [][Next]_vars

\* The feed carries up to MaxMatchEvents events of any kind.
NextMatch ==
  \/ Step
  \/ \E e \in Events : Emit(e, MaxMatchEvents)

SpecMatch == Init /\ [][NextMatch]_vars

\* The feed carries up to MaxEvents events, replies with a text or malformed
\* ones.
FailFeed == {e \in ReplyEvents : e.text # None} \cup MalformedEvents

NextFail ==
  \/ Step
  \/ \E e \in FailFeed : Emit(e, MaxEvents)

SpecFail == Init /\ [][NextFail]_vars

\* A plain message of the expected user, outside every thread.
PlainMessage ==
  [type |-> "message", channel |-> channelId, user |-> userId,
   text |-> Some(TextYes), thread_ts |-> None, bot_id |-> None,
   seq |-> emitted + 1]

\* A feed of up to MaxLogEvents events that arrive one millisecond apart, each
\* after the one before it was handled: plain messages and up to MaxOdd
\* messages of a bot or events of another type.
EmitLog(e) ==
  /\ UNCHANGED extVars
  /\ microtasks = <<>>
  /\ acking = <<>>
  /\ handler = "set"
  /\ emitted < MaxLogEvents
  /\ e = PlainMessage \/ odd < MaxOdd
  /\ odd' = IF e = PlainMessage THEN odd ELSE odd + 1
  /\ emitted' = emitted + 1
  /\ acking' = <<e>>
  /\ now' = now + 1
  /\ UNCHANGED <<askVars, tsCounter, storeVars, promiseVars, timerVars,
                 microtasks, rejected, debugVars, connVars>>

LogFeed ==
  {PlainMessage}
  \cup {e \in BotMessages : e.thread_ts = None}
  \cup OtherEvents

NextLog ==
  \/ SetHandler
  \/ \E e \in LogFeed : EmitLog(e)
  \/ \E o \in AckOrders : AckDone(o)
  \/ RunMicrotask

SpecLog == Init /\ [][NextLog]_vars

\* Callers invoke start() on one SlackHandler at any time.
NextStart ==
  \/ \E c \in Asks : StartCall(c)
  \/ StartStep

SpecStart == InitEither /\ [][NextStart]_vars

\* Tool calls arrive at any time; the handler is created on demand; the
\* feed carries up to MaxToolEvents replies while the socket is connected.
NextTool ==
  \/ \E c \in Asks : ToolInitDone(c)
  \/ \E c \in Asks : ToolReturn(c)
  \/ \E c \in Asks : Settled /\ ToolCall(c)
  \/ \E c \in Asks : Settled /\ DynAuthOk(c)
  \/ \E c \in Asks : Settled /\ DynAuthFail(c)
  \/ \E c \in Asks : Settled /\ DynConnected(c)
  \/ \E c \in Asks : Settled /\ DynTimeout(c)
  \/ \E c \in Asks : Settled /\ AuthOk(c)
  \/ \E c \in Asks : Settled /\ AuthFail(c)
  \/ Settled /\ SockStartResolves
  \/ Settled /\ SockConnected
  \/ Settled /\ SockDisconnect
  \/ Settled /\ SockFail
  \/ \E c \in Asks : Settled /\ WaitConnOk(c)
  \/ \E c \in Asks : Settled /\ WaitConnTimeout(c)
  \/ \E c \in Asks : Settled /\ Stabilised(c)
  \/ \E c \in Asks : Settled /\ ConnTimeout(c)
  \/ \E a \in Asks : Settled /\ BackendAccept(a)
  \/ \E a \in Asks : Settled /\ BackendReject(a)
  \/ \E a \in Asks : Settled /\ AskResume(a)
  \/ Settled /\ TimerFire
  \/ Settled /\ RunMicrotask
  \/ \E o \in AckOrders : Settled /\ AckDone(o)
  \/ \E i \in 1..Len(acking) : Settled /\ AckFail(i)
  \/ \E e \in ReplyEvents :
       Settled /\ sock = "connected" /\ Emit(e, MaxToolEvents)

SpecTool == InitEither /\ [][NextTool]_vars

\* Up to MaxCalls tool calls, followed up to their call of human.ask.
NextRetry ==
  \/ \E c \in Calls : ToolInitDone(c)
  \/ \E c \in Calls : Settled /\ ToolCall(c)
  \/ \E c \in Calls : Settled /\ DynAuthOk(c)
  \/ \E c \in Calls : Settled /\ DynAuthFail(c)
  \/ \E c \in Calls : Settled /\ DynConnected(c)
  \/ \E c \in Calls : Settled /\ DynTimeout(c)
  \/ \E c \in Calls : Settled /\ AuthOk(c)
  \/ \E c \in Calls : Settled /\ AuthFail(c)
  \/ Settled /\ SockStartResolves
  \/ Settled /\ SockConnected
  \/ Settled /\ SockDisconnect
  \/ Settled /\ SockFail
  \/ \E c \in Calls : Settled /\ WaitConnOk(c)
  \/ \E c \in Calls : Settled /\ WaitConnTimeout(c)
  \/ \E c \in Calls : Settled /\ Stabilised(c)
  \/ \E c \in Calls : Settled /\ ConnTimeout(c)

SpecRetry == InitEither /\ [][NextRetry]_vars

NextPoll ==
  \/ \E ready \in BOOLEAN : PollAsk(ready)
  \/ \E ts \in {None, Some(1)} : PollSendOk(ts)
  \/ PollSendFail
  \/ \E m \in ThreadMessages : PollPost(m, MaxThread)
  \/ PollRound
  \/ PollFail
  \/ StreamWait

SpecPoll == Init /\ [][NextPoll]_vars

\* The polling ask alone, in a thread long enough for the limit of
\* conversations.replies; every message has a text and no bot_id, and every
\* poll is answered.
LongThreadMessages ==
  {m \in ThreadMessages : m.bot_id = None /\ m.text # None}

NextPollLong ==
  \/ PollAsk(TRUE)
  \/ PollSendOk(Some(1))
  \/ \E m \in LongThreadMessages : PollPost(m, MaxLongThread)
  \/ PollRound

SpecPollLong == Init /\ [][NextPollLong]_vars

\* ----------------------------------------------------- reading a state
\* The microtask that runs next is handleSocketModeRequest for an event.
Handling == microtasks # <<>> /\ Head(microtasks).kind = "handle"

\* The event the next microtask handles.
Handled == Head(microtasks).ev

\* Event e is a reply of the expected user, in the configured channel, in the
\* thread of the question of ask call a.
ReplyTo(e, a) ==
  /\ e.type = "message"
  /\ e.channel = channelId
  /\ e.user = userId
  /\ post[a].status = "ok"
  /\ e.thread_ts = post[a].ts

Range(q) == {q[i] : i \in 1..Len(q)}

RecordsOf(a) == {r \in Range(pendingResponses) : r.owner = a}

ResolverStored(a) ==
  qid[a] \in DOMAIN responseResolvers /\ responseResolvers[qid[a]] = a

\* ------------------------------------------------------------------- C1
\* C1: every ask call that passed the readiness check eventually ends. An
\* ask call that is suspended on its pending promise can end only through its
\* stored resolver or its armed timer; so at every moment a suspended call
\* must still have one of the two, or it stays suspended forever.
C1_SuspendedAskCanEnd ==
  \A a \in Asks :
    Waiting(a) => (a \in Range(timers) \/ ResolverStored(a))

\* ------------------------------------------------------------------- C2
\* C2: the race between the Dispatcher's match and the question's timer has
\* exactly one winner: once the timer callback of a question has run, exactly
\* one call of resolve or reject has been made on the promise of its caller.
C2_ExactlyOneWinner ==
  \A a \in Asks : a \in fired => calls[a] = 1

\* ------------------------------------------------------------------- C3
\* C3: any two ask calls on the same HumanInSlack get different question
\* identifiers.
C3_UniqueQuestionIds ==
  \A a, b \in Asks :
    (a # b /\ qid[a] # None /\ qid[b] # None) => qid[a] # qid[b]

\* ------------------------------------------------------------------- C4
\* C4: while the chat.postMessage call of an ask call is issued and not yet
\* answered, the record of its question is already in pendingResponses and
\* its resolver in responseResolvers.
C4_InsertBeforeSend ==
  \A a \in Asks :
    pc[a] = "posting" => (RecordsOf(a) # {} /\ ResolverStored(a))

\* ------------------------------------------------------------------- C5
\* C5: a reply that matches a question in channel, user and thread anchor and
\* is handled after the backend accepted the question and before its timer
\* ran is delivered to the caller of that question, also when ask has not yet
\* resumed from the send.
C5_NoLostWakeup ==
  [][\A a \in Asks :
       ( /\ Handling
         /\ IsCandidate(Handled)
         /\ ReplyTo(Handled, a)
         /\ post[a].ts # None
         /\ pc[a] \in {"accepted", "waiting"}
         /\ promise[a] \in {"none", "pending"}
         /\ a \notin fired )
       => promise'[a] = "fulfilled"]_vars

\* ------------------------------------------------------------------- C6
\* C6: an inbound event resolves a Waiting question if and only if its
\* channel, user and thread_ts equal the question's channel, user and anchor.
C6_ResolvesIffAllThreeMatch ==
  [][\A a \in Asks :
       (Handling /\ IsCandidate(Handled) /\ Waiting(a) /\ post[a].ts # None)
       => (promise'[a] = "fulfilled" <=> ReplyTo(Handled, a))]_vars

\* ------------------------------------------------------------------- C7
\* C7: an event without thread_ts resolves no pending question: it fulfils no
\* promise and leaves pendingResponses and responseResolvers as they are.
C7_NoThreadNeverResolves ==
  [][(Handling /\ Handled.thread_ts = None)
     => UNCHANGED <<promise, pendingResponses, responseResolvers>>]_vars

\* ------------------------------------------------------------------- C8
\* C8: an event with bot_id set changes neither pendingResponses nor
\* responseResolvers and settles no promise.
C8_BotEventIgnored ==
  [][(Handling /\ Handled.bot_id # None)
     => UNCHANGED <<pendingResponses, responseResolvers, promise, value,
                    calls>>]_vars

\* A bot message that agrees with a Waiting question in channel, user and
\* thread anchor has been handled, and the question is still Waiting.
C8_Witness ==
  /\ lastHandled.ev.bot_id # None
  /\ \E a \in lastHandled.waiting :
       /\ ReplyTo(lastHandled.ev, a)
       /\ post[a].ts # None
       /\ Waiting(a)
       /\ RecordsOf(a) # {}
       /\ ResolverStored(a)

\* ------------------------------------------------------------------- C9
\* C9: a matching reply handled after the question's timer callback has run
\* and rejected the caller (the question is TimedOut) is not delivered to
\* that caller and finds no record of the question to write to.
C9_LateReplyIgnored ==
  [][\A a \in Asks :
       ( /\ Handling
         /\ ReplyTo(Handled, a)
         /\ a \in fired
         /\ promise[a] = "rejected" )
       => /\ promise'[a] = promise[a]
          /\ calls'[a] = calls[a]
          /\ value'[a] = value[a]
          /\ RecordsOf(a) = {}
          /\ RecordsOf(a)' = {}]_vars

\* A reply in the thread of a question has been handled after the question's
\* timer rejected its caller, and the caller got the Timeout error.
C9_Witness ==
  \E a \in lastHandled.fired :
    /\ ReplyTo(lastHandled.ev, a)
    /\ IsCandidate(lastHandled.ev)
    /\ post[a].ts # None
    /\ outcome[a] = "Timeout"

\* ------------------------------------------------------------------ C10
\* C10: once the timer callback of a question has run without a reply having
\* been delivered, ask has failed with the Timeout error and neither map
\* holds the question's entry.
C10_TimeoutFailsAndCleans ==
  \A a \in Asks :
    (a \in fired /\ promise[a] # "fulfilled" /\ microtasks = <<>>)
    => /\ outcome[a] = "Timeout"
       /\ RecordsOf(a) = {}
       /\ ~ResolverStored(a)

InFlight(a) == pc[a] \notin {"idle", "done"}

C12_NoLeakedEntry ==
  /\ \A a \in Asks :
       pc[a] = "done" => (RecordsOf(a) = {} /\ ~ResolverStored(a))
  /\ (\A a \in Asks : ~InFlight(a))
       => (pendingResponses = <<>> /\ responseResolvers = EmptyMap)

\* Every ask call has ended, one with a reply and one with the Timeout error.
C12_Witness ==
  /\ \A a \in Asks : pc[a] = "done"
  /\ \E a, b \in Asks : outcome[a] = "Reply" /\ outcome[b] = "Timeout"

C14_SlotSingleAssignment ==
  [][Handling =>
       \A i \in 1..Len(pendingResponses) :
         pendingResponses[i].received
         => /\ i <= Len(pendingResponses')
            /\ pendingResponses'[i] = pendingResponses[i]]_vars

\* ------------------------------------------------------------------ C15
\* C15: questions to different destinations never cross-resolve. One
\* HumanInSlack sends all its questions to its channelId, so a question to
\* another destination is pending in another HumanInSlack and its replies
\* reach this one as events of the other channel: such an event, also of the
\* expected user and with the thread anchor of a question Waiting here,
\* resolves nothing and changes neither map.
C15_NoCrossResolve ==
  [][(Handling /\ Handled.channel # channelId)
     => UNCHANGED <<promise, value, calls, pendingResponses,
                    responseResolvers>>]_vars

\* A message of the expected user in the other channel, carrying the thread
\* anchor of a question Waiting here, has been handled and the question is
\* still Waiting with its record untouched.
C15_Witness ==
  /\ lastHandled.ev.type = "message"
  /\ lastHandled.ev.bot_id = None
  /\ lastHandled.ev.channel = "C2"
  /\ lastHandled.ev.user = userId
  /\ \E a \in lastHandled.waiting :
       /\ post[a].ts # None
       /\ lastHandled.ev.thread_ts = post[a].ts
       /\ Waiting(a)
       /\ ResolverStored(a)
       /\ \E r \in RecordsOf(a) : ~r.received /\ r.channel = "C1"

\* ------------------------------------------------------------------ C16
\* C16: the promise of an ask call is fulfilled only by an event that matches
\* its question, with that event's text (the empty string when it has none);
\* the value is never replaced; and ask returns it after having removed the
\* question from both maps.
C16_ReturnsFirstMatchText ==
  [][\A a \in Asks :
       /\ (promise[a] = "pending" /\ promise'[a] = "fulfilled")
          => /\ Handling
             /\ Handled.type = "message"
             /\ ReplyTo(Handled, a)
             /\ value'[a] = IF Handled.text = None THEN <<>>
                                                   ELSE Handled.text[1]
       /\ promise[a] = "fulfilled" => value'[a] = value[a]
       /\ (outcome[a] # "Reply" /\ outcome'[a] = "Reply")
          => /\ promise[a] = "fulfilled"
             /\ answer'[a] = value[a]
             /\ pc'[a] = "done"
             /\ RecordsOf(a)' = {}
             /\ ~ResolverStored(a)']_vars

\* A reply without text has woken the caller of a Waiting question and ask
\* has returned the empty string, the question being gone from both maps.
C16_Witness ==
  /\ lastHandled.ev.text = None
  /\ \E a \in lastHandled.waiting :
       /\ ReplyTo(lastHandled.ev, a)
       /\ post[a].ts # None
       /\ outcome[a] = "Reply"
       /\ answer[a] = <<>>
       /\ RecordsOf(a) = {}
       /\ ~ResolverStored(a)

\* ------------------------------------------------------------------ C17
\* C17: an ask call issues chat.postMessage once, right after the readiness
\* check, and never again; when the call throws or returns ok = false, ask
\* fails with the send error, having stored no record and no resolver and
\* started no timer.
C17_OneSendNoRetry ==
  [][\A a \in Asks :
       /\ (pc'[a] = "posting" /\ pc[a] # "posting") => pc[a] = "idle"
       /\ pc[a] # "idle" => pc'[a] # "idle"
       /\ (post[a].status \in {"notok", "throw"} /\ pc[a] = "refused")
          => /\ post'[a] = post[a]
             /\ RecordsOf(a)' = {}
             /\ ~ResolverStored(a)'
             /\ a \notin Range(timers')
             /\ promise'[a] = "none"
             /\ pc'[a] \in {"refused", "done"}
             /\ pc'[a] = "done" => outcome'[a] = "SendFailed"
       /\ outcome[a] = "SendFailed"
          => /\ UNCHANGED <<pc[a], outcome[a], post[a], promise[a]>>
             /\ RecordsOf(a)' = {}
             /\ a \notin Range(timers')]_vars

\* chat.postMessage has returned ok = false to one ask call, which failed
\* with the send error, while the question of another call is Waiting.
C17_Witness ==
  \E a, b \in Asks :
    /\ outcome[a] = "SendFailed"
    /\ post[a].status = "notok"
    /\ a \notin Range(timers)
    /\ Waiting(b)
    /\ RecordsOf(b) # {}

\* ------------------------------------------------------------------ C18
\* C18: with several questions Waiting at once, a reply to any one of them
\* resolves that question, wherever its entry stands in pendingResponses,
\* and every other Waiting question stays Waiting with its record and its
\* resolver as they were.
C18_ScansAllWaiting ==
  [][\A a \in Asks :
       ( /\ Handling
         /\ IsCandidate(Handled)
         /\ ReplyTo(Handled, a)
         /\ post[a].ts # None
         /\ Waiting(a)
         /\ \E b \in Asks \ {a} : Waiting(b) )
       => /\ promise'[a] = "fulfilled"
          /\ \A b \in Asks \ {a} :
               Waiting(b) => /\ promise'[b] = "pending"
                             /\ RecordsOf(b)' = RecordsOf(b)
                             /\ ResolverStored(b) => ResolverStored(b)']_vars

\* ------------------------------------------------------------------ C19
\* C19: one event resolves at most one pending question: handling it writes
\* at most one entry of pendingResponses, the first in insertion order that
\* agrees with it in channel, user and thread anchor, and fulfils at most one
\* promise.
C19_AtMostOnePerEvent ==
  [][Handling =>
       /\ Len(pendingResponses') = Len(pendingResponses)
       /\ Cardinality({a \in Asks : promise'[a] # promise[a]}) <= 1
       /\ Cardinality({a \in Asks : calls'[a] # calls[a]}) <= 1
       /\ \A i, j \in 1..Len(pendingResponses) :
            (i # j /\ Handled.thread_ts = pendingResponses[i].threadTs
                   /\ Handled.thread_ts = pendingResponses[j].threadTs)
            => \/ pendingResponses'[i].received = pendingResponses[i].received
               \/ pendingResponses'[j].received = pendingResponses[j].received
       /\ \A i \in 1..Len(pendingResponses) :
            pendingResponses'[i] # pendingResponses[i]
            => \A j \in 1..(i - 1) :
                 Handled.thread_ts # pendingResponses[j].threadTs]_vars

\* One event has been handled while two questions it agrees with in channel,
\* user and thread anchor were Waiting: it woke the caller of one and the
\* other is still Waiting.
C19_Witness ==
  /\ lastHandled.waiting = Asks
  /\ lastHandled.ev.bot_id = None
  /\ \A a \in Asks : ReplyTo(lastHandled.ev, a)
  /\ \E a, b \in Asks :
       /\ promise[a] = "fulfilled"
       /\ value[a] = TextOf(lastHandled.ev)
       /\ Waiting(b)
       /\ ResolverStored(b)
       /\ \E r \in RecordsOf(b) : ~r.received

\* ------------------------------------------------------------------ C20
\* C20: events are matched against the pending questions in the order the
\* socket client emitted them: the event handled next was emitted after the
\* event handled last.
C20_ArrivalOrder ==
  [][Handling => Handled.seq > lastHandled.ev.seq]_vars

\* ------------------------------------------------------------------ C21
\* C21: an event that matches no Waiting question is discarded: handling it
\* changes neither pendingResponses nor responseResolvers and settles no
\* promise.
C21_NoMatchDiscarded ==
  [][( /\ Handling
       /\ ~\E a \in Asks : /\ Waiting(a)
                           /\ Handled.type = "message"
                           /\ Handled.bot_id = None
                           /\ ReplyTo(Handled, a) )
     => UNCHANGED <<pendingResponses, responseResolvers, promise, value,
                    calls>>]_vars

\* ------------------------------------------------------------------ C22
\* C22: a failure in the handling of one event stays with that event. When
\* handleSocketModeRequest throws, or the ack() of an event rejects, no
\* record, resolver or promise is changed, the listener stays installed, and
\* the events in flight and the handlers already queued are kept, so that the
\* events after it are processed.
AckRejects ==
  /\ microtasks = <<>>
  /\ microtasks' = <<>>
  /\ Len(acking') = Len(acking) - 1

C22_FailureIsolated ==
  [][ /\ (Handling /\ (Handled.type = "undefined"
                       \/ Handled.text = Some(BadText)))
         => /\ UNCHANGED <<pendingResponses, responseResolvers, promise,
                           value, calls, handler, acking>>
            /\ microtasks' = Tail(microtasks)
      /\ AckRejects
         => /\ UNCHANGED <<pendingResponses, responseResolvers, promise,
                           value, calls, handler>>
            /\ \A e \in Range(acking) :
                 e \in Range(acking')
                 \/ \A x \in Range(acking) \ {e} : x \in Range(acking') ]_vars

\* The first event failed in its handling while a question was Waiting, and
\* the reply emitted after it has been handled and has woken the caller.
C22_Witness ==
  /\ lastHandled.ev.seq = 2
  /\ emitted = 2
  /\ acking = <<>>
  /\ \E a \in lastHandled.waiting :
       /\ ReplyTo(lastHandled.ev, a)
       /\ post[a].ts # None
       /\ outcome[a] = "Reply"
       /\ answer[a] = TextYes
  /\ messageLog # <<>>
  /\ Len(messageLog) = 1

\* ------------------------------------------------------------------ C24
\* C24: delivering a resolution is a handoff: the handler that wakes a caller
\* ends with the caller still suspended and its record still stored, the
\* caller's continuation queued behind the handlers that are already queued.
C24_NonBlockingHandoff ==
  [][\A a \in Asks :
       (Handling /\ promise[a] = "pending" /\ promise'[a] = "fulfilled")
       => /\ pc'[a] = "waiting"
          /\ outcome'[a] = "none"
          /\ Len(pendingResponses') = Len(pendingResponses)
          /\ microtasks' = Tail(microtasks) \o <<ThenJob(a)>>]_vars

\* Two events have been handled, the first of which woke a caller, and that
\* caller has not run yet.
C24_Witness ==
  /\ eventCount = 2
  /\ \E a \in Asks :
       /\ promise[a] = "fulfilled"
       /\ pc[a] = "waiting"
       /\ a \notin lastHandled.waiting
       /\ microtasks = <<ThenJob(a)>>

\* ------------------------------------------------------------------ C25
\* C25: the message log holds at most 50 entries, and they are the entries
\* of the last (up to 50) events of type 'message' that were handled, in the
\* order they were handled.
LastOf(q, n) == IF Len(q) <= n THEN q ELSE SubSeq(q, Len(q) - n + 1, Len(q))

C26_SameOutcome ==
  (sres # Pending /\ pres # Pending) => sres = pres

\* ------------------------------------------------------------------ C27
\* C27: start() of part_004 is single-flight: however many calls are made,
\* at the same time or one after another, the start sequence (auth test,
\* socketClient.start()) runs at most once, and every call gets the promise
\* of that one attempt.
C27_SingleFlight ==
  client = "new" =>
    /\ doStarts <= 1
    /\ sockStarts <= 1
    /\ \A c \in Asks : got[c] # 0 => got[c] = startPromise.owner

\* A second call is made while the start sequence of the first one waits for
\* the connection, and is handed the first call's promise.
C27_Witness ==
  /\ client = "new"
  /\ sp[1] = "sockstart"
  /\ sp[2] = "joined"
  /\ got[2] = 1
  /\ doStarts = 1

\* ------------------------------------------------------------------ C28
\* C28: whenever a call of start() completes and isReady is true at that
\* moment, socketClient.connected is true at that moment.
C28_ReadyMeansConnected ==
  [][\A c \in Asks :
       (sp[c] # "done" /\ sp'[c] = "done" /\ isReady')
         => sock' = "connected"]_vars

\* The old start() has completed with the socket connected and isReady true.
C28_Witness ==
  /\ client = "old"
  /\ sp[1] = "done"
  /\ doStarts = 1
  /\ isReady
  /\ sock = "connected"

\* ------------------------------------------------------------------ C23
\* C23: an ask that fails (NotReady, send failure, Timeout) inside a tool
\* call is reported as the text result 'Error asking human: ...' of that
\* call; the handler never throws, whatever the other calls did.
C23_AskErrorIsResult ==
  \A c \in Asks :
    /\ result[c].kind # "thrown"
    /\ (tool[c] = "returned" /\ pc[c] = "done"
          /\ outcome[c] \in {"NotReady", "SendFailed", "Timeout"})
         => result[c] = [kind |-> "text",
                         text |-> <<"Error asking human", outcome[c]>>]

\* The first call has returned the Timeout of its ask as a text; the second
\* call, whose ask began after that timer had fired, has returned the reply.
C23_Witness ==
  /\ result[1] = [kind |-> "text", text |-> <<"Error asking human", "Timeout">>]
  /\ tool[2] = "returned"
  /\ outcome[2] = "Reply"
  /\ result[2] = [kind |-> "text", text |-> TextYes]
  /\ qid[2][2] >= deadline[1]

\* ------------------------------------------------------------------ C29
\* C29: a tool call made while the handler has been started and the socket is
\* connected (again), the connection staying up during the call, proceeds to
\* human.ask: it does not return without having asked.
C29_ReadinessRecovers ==
  \A c \in steady : tool[c] = "returned" => pc[c] # "idle"

\* ------------------------------------------------------------------ C30
\* C30: however the ask_on_slack calls overlap, at most one Slack handler is
\* created and setHandler registers at most one 'message' listener.
C30_InitOnce ==
  /\ handlers <= 1
  /\ listeners <= 1
  /\ (handler = "set") = (listeners = 1)

\* A second call arrives while the first one still awaits start(): it finds
\* the handler and goes on to the reconnection path.
C30_Witness ==
  /\ tool[1] = "init"
  /\ sp[1] = "sockstart"
  /\ tool[2] = "dynauth"
  /\ handlers = 1
  /\ listeners = 1

\* ------------------------------------------------------------------ C31
\* C31: the reconnection path of one tool call does not invoke
\* socketClient.start() while the socketClient.start() that the on-demand
\* initialization of another call issued through handler.start() is still
\* pending.
C31_NoDoubleStart ==
  [][\A c \in Asks :
       (tool[c] = "dynauth" /\ sockStarts' = sockStarts + 1)
         => ~\E d \in Asks : sp[d] = "sockstart"]_vars

\* ------------------------------------------------------------------ C32
\* C32: a call whose slackHandler.start() failed returns an error without
\* calling human.ask; a later call, made with the socket not yet connected,
\* goes through the auth test and socketClient.start() again and, unless that
\* attempt fails too, proceeds to human.ask.
C32_InitFailureNotPermanent ==
  [][\A c \in Calls :
       /\ (tool[c] = "init" /\ sp[c] = "failed" /\ tool'[c] # "init")
            => tool'[c] = "returned"
       /\ (c \in retries' /\ tool[c] = "idle") => tool'[c] = "dynauth"
       /\ (c \in retries /\ tool[c] = "dynauth" /\ tool'[c] # "dynauth"
             /\ sock # "connected" /\ result'[c] = result[c])
            => sockStarts' = sockStarts + 1
       /\ (c \in retries /\ tool[c] \notin {"returned", "asking"}
             /\ tool'[c] = "returned")
            => result'[c].text \in {<<"Error: Slack auth test failed">>,
                                    <<"Error: Socket connection failed">>,
                                    <<"Error: Socket session timeout">>}]_vars

\* ------------------------------------------------------------------ C33
\* C33: when the timer of a question whose promise has been fulfilled fires,
\* it rejects no promise and removes no resolver and no pending entry.
C33_StaleTimerNoOp ==
  [][(/\ microtasks = <<>>
      /\ timers # <<>>
      /\ timers' = Tail(timers)
      /\ promise[Head(timers)] = "fulfilled")
       => UNCHANGED <<responseResolvers, pendingResponses, promise>>]_vars

\* ------------------------------------------------------------------ C34
\* C34: the polling ask returns the text of the first message of the thread
\* that the configured user wrote with a non-empty text, whoever else wrote
\* in the thread, and it fails with the Timeout error only when the thread
\* held no such message at its last answered poll.
C34_FirstQualifyingReply ==
  LET quals == {i \in 1..Len(thread) :
                  /\ thread[i].user = userId
                  /\ thread[i].text # None
                  /\ thread[i].text # Some(<<>>)}
  IN  /\ pres.kind = "Reply" =>
           /\ quals # {}
           /\ pres.text =
                thread[CHOOSE i \in quals : \A j \in quals : i <= j].text[1]
      /\ pres.kind = "Timeout" => \A i \in quals : i > polled

\* ------------------------------------------------------------------ C35
\* C35: a poll that throws leaves the polling ask waiting, or ends it with
\* the Timeout error when the 60 s are over, and the ask ends in no other way
\* than with a reply, a send failure, NotReady or Timeout.
C35_FailedPollTolerated ==
  [][/\ pfails' > pfails =>
          \/ pres' = Pending /\ elapsed' = elapsed + PollInterval
          \/ pres' = TimedOut /\ elapsed' >= PollTimeout
     /\ pres'.kind \in {"pending", "Reply", "SendFailed", "NotReady",
                        "Timeout"}]_vars

\* A poll threw, and a later poll returned the user's reply.
C35_Witness ==
  /\ pfails > 0
  /\ polled > 0
  /\ pres.kind = "Reply"

\* ------------------------------------------------------------------ C36
\* C36: handleSocketModeRequest is queued for an event only in the step in
\* which the ack() of that event completes, it runs with that ack() no
\* longer in flight, and an event whose ack() rejected is never handled.
C36_AckBeforeHandle ==
  [][LET Jobs(q) == {q[x].ev : x \in {y \in DOMAIN q : q[y].kind = "handle"}}
     IN  /\ \A e \in Jobs(microtasks') \ Jobs(microtasks) :
              /\ e \in Range(acking)
              /\ e \notin Range(acking')
              /\ e.seq \notin rejected'
         /\ \A e \in Jobs(microtasks) :
              /\ e \notin Range(acking)
              /\ e.seq \notin rejected
         /\ eventCount' # eventCount =>
              /\ microtasks # <<>>
              /\ Head(microtasks).kind = "handle"
              /\ Head(microtasks).ev.seq \notin rejected]_vars

\* Two events were emitted: the ack() of one rejected and it was not handled,
\* the other one was handled after its ack().
C36_Witness ==
  /\ emitted = 2
  /\ Cardinality(rejected) = 1
  /\ acking = <<>>
  /\ microtasks = <<>>
  /\ eventCount = 1
  /\ lastHandled.ev.seq \notin rejected

\* ------------------------------------------------------------------ C37
\* C37: eventCount grows by exactly one in every run of
\* handleSocketModeRequest, whatever the event, and changes in no other
\* step; a bot message gets its entry in the message log and changes no
\* record, resolver or promise; the message log is never longer than
\* eventCount.
C37_CountersConsistent ==
  [][/\ Handling => eventCount' = eventCount + 1
     /\ ~Handling => eventCount' = eventCount
     /\ (Handling /\ Handled.type = "message" /\ Handled.bot_id # None)
          => /\ Len(logged') = Len(logged) + 1
             /\ messageLog' # <<>>
             /\ messageLog'[Len(messageLog')].botId = Handled.bot_id
             /\ messageLog'[Len(messageLog')].threadTs = Handled.thread_ts
             /\ UNCHANGED <<pendingResponses, responseResolvers, promise,
                            value>>
     /\ Len(messageLog') <= eventCount']_vars

\* A bot message posted in the thread of a waiting question has been
\* handled: it is counted and logged, and the question still waits.
C37_Witness ==
  /\ eventCount = 1
  /\ Len(messageLog) = 1
  /\ messageLog[1].botId # None
  /\ \E a \in lastHandled.waiting :
       /\ post[a].status = "ok"
       /\ post[a].ts # None
       /\ lastHandled.ev.thread_ts = post[a].ts
       /\ Waiting(a)

====
